---- MODULE Spec2Model ----
(***************************************************************************)
(* A model of Caliper's roctracer service (RocTracer.cpp): the HIP API     *)
(* callback that opens/closes the rocm.api region and stores a correlation *)
(* entry, the mutex-protected correlation map, and the activity-buffer     *)
(* flush that turns completion records into snapshots.                     *)
(***************************************************************************)
EXTENDS Integers, Sequences, FiniteSets, TLC

(* ------------------------------ bounds --------------------------------- *)
\* correlation ids handed out by the HIP runtime are 1..MaxId
MaxId == 2
\* events the environment produces in one run: an ENTER callback counts 1, a
\* buffer of n records counts 1 + n
MaxEvents == 3
\* calls of push_correlation / pop_correlation in one run of the store alone
MaxOps == 4
\* callbacks that may start between post_init and pre_finish of a channel
MaxLifeEvents == 2
\* allocations an Umpire allocator holds at a time
MaxAllocations == 2
\* snapshot events of a run with the Umpire service
MaxSnapshots == 2

(* ------------------------------ values --------------------------------- *)
Ids == 1..MaxId

\* a null cali::Node*; a node is the non-empty path of (attribute, value)
\* entries from the root of the context tree to that node
Null == <<>>

\* thread that has no owner / the threads of the model
NoThread == "none"
AppThreads == {"app", "app2"}
CbThreads == {"rt", "rt2"}
Threads == AppThreads \cup CbThreads

HIP_API_ID___hipPushCallConfiguration == "HIP_API_ID___hipPushCallConfiguration"
HIP_API_ID___hipPopCallConfiguration == "HIP_API_ID___hipPopCallConfiguration"
HIP_API_ID_hipLaunchKernel == "HIP_API_ID_hipLaunchKernel"
HIP_API_ID_hipExtLaunchKernel == "HIP_API_ID_hipExtLaunchKernel"
HIP_API_ID_hipModuleLaunchKernel == "HIP_API_ID_hipModuleLaunchKernel"
HIP_API_ID_hipExtModuleLaunchKernel == "HIP_API_ID_hipExtModuleLaunchKernel"
HIP_API_ID_hipHccModuleLaunchKernel == "HIP_API_ID_hipHccModuleLaunchKernel"
HIP_API_ID_hipMemcpy == "HIP_API_ID_hipMemcpy"

ACTIVITY_API_PHASE_ENTER == "ACTIVITY_API_PHASE_ENTER"
ACTIVITY_API_PHASE_EXIT == "ACTIVITY_API_PHASE_EXIT"

\* the HIP API ids the instrumented application calls in this model
CallIds ==
    { HIP_API_ID___hipPushCallConfiguration,
      HIP_API_ID___hipPopCallConfiguration,
      HIP_API_ID_hipLaunchKernel,
      HIP_API_ID_hipMemcpy }

\* what hipKernelNameRefByPtr / hipKernelNameRef can return (mangled)
KernelNames == { "", "_Z6matmulv" }

ACTIVITY_DOMAIN_HIP_API == "ACTIVITY_DOMAIN_HIP_API"
ACTIVITY_DOMAIN_HIP_OPS == "ACTIVITY_DOMAIN_HIP_OPS"
ACTIVITY_DOMAIN_HCC_OPS == "ACTIVITY_DOMAIN_HCC_OPS"
Domains == { ACTIVITY_DOMAIN_HIP_API, ACTIVITY_DOMAIN_HIP_OPS, ACTIVITY_DOMAIN_HCC_OPS }

HIP_OP_ID_DISPATCH == "HIP_OP_ID_DISPATCH"
HIP_OP_ID_COPY == "HIP_OP_ID_COPY"
Ops == { HIP_OP_ID_DISPATCH, HIP_OP_ID_COPY }

\* the roctracer_record_t values a buffer can hold (end_ns >= begin_ns)
Records ==
    [ domain : Domains, op : Ops, correlation_id : Ids,
      begin_ns : {100}, end_ns : {600},
      device_id : {0}, queue_id : {1}, bytes : {64} ]

NoRecord ==
    [ domain |-> "none", op |-> "none", correlation_id |-> 0,
      begin_ns |-> 0, end_ns |-> 0, device_id |-> 0, queue_id |-> 0, bytes |-> 0 ]

(* ------------------------------ state ---------------------------------- *)
VARIABLES
    m_enable_tracing,            \* config trace_activities
    m_record_names,              \* config record_kernel_names
    m_correlation_map,           \* set of <<id, node>> entries
    m_correlation_map_mutex,     \* the thread holding the mutex, or NoThread
    m_num_records,
    m_num_flushed,
    m_num_flushes,
    m_num_correlations_stored,
    m_num_correlations_found,
    m_num_correlations_missed,
    pc,                          \* each thread's position
    blackboard,                  \* each thread's current context (open regions)
    loc,                         \* each thread's locals in push/pop_correlation
    fl,                          \* locals of flush_activity_records
    dispatched,                  \* snapshots process_snapshot got from the flush_record call in progress
    flush_log,                   \* numbers of the last "Flushed ..." log message
    s_instance,                  \* RocTracerService::s_instance: 0 (nullptr) or an instance
    heap,                        \* instances made so far and those not deleted
    m_roctracer_pool,            \* 0 (nullptr) or the pool the instance opened
    roctracer,                   \* the roctracer library: the HIP API callback's argument,
                                 \* the open pools, the default pool, the activity domains
    pre_flush_evt,               \* instances whose pre_flush_cb is connected
    log,                         \* the statements written to the Log streams
    channel_evt,                 \* per channel: the last lifecycle event it fired
    fault                        \* a member function ran on a null instance

\* UmpireService and the Umpire resource manager it reads
VARIABLES
    m_per_allocator_stats,       \* config per_allocator_statistics
    rm,                          \* umpire::ResourceManager: the allocators, in the
                                 \* order of getAllocatorNames()
    snapshot_rec,                \* the builder of the snapshot being taken
    um,                          \* locals of UmpireService::snapshot
    um_pc,                       \* where UmpireService::snapshot stands
    processed,                   \* records handed to process_snapshot
    events                       \* how often each channel event was fired

counters ==
    << m_num_records, m_num_flushed, m_num_flushes, m_num_correlations_stored,
       m_num_correlations_found, m_num_correlations_missed >>

\* the registration state of the service and of its channels
service ==
    << s_instance, heap, m_roctracer_pool, roctracer, pre_flush_evt, log, channel_evt,
       fault >>

\* the state of the Umpire service
umpire == << m_per_allocator_stats, rm, snapshot_rec, um, um_pc, processed, events >>

config == << m_enable_tracing, m_record_names, service, umpire >>

\* the state of the roctracer service
rocprog ==
    << service, m_enable_tracing, m_record_names, m_correlation_map, m_correlation_map_mutex,
       m_num_records, m_num_flushed, m_num_flushes, m_num_correlations_stored,
       m_num_correlations_found, m_num_correlations_missed,
       pc, blackboard, loc, fl, flush_log >>

prog == << umpire, rocprog >>

\* the attributes the service creates (by name)
m_api_attr == "rocm.api"
m_activity_start_attr == "rocm.starttime"
m_activity_end_attr == "rocm.endtime"
m_activity_duration_attr == "rocm.activity.duration"
m_activity_name_attr == "rocm.activity"
m_activity_queue_id_attr == "rocm.activity.queue"
m_activity_device_id_attr == "rocm.activity.device"
m_activity_bytes_attr == "rocm.activity.bytes"
m_kernel_name_attr == "rocm.kernel.name"
m_flush_region_attr == "roctracer.flush"

(* --------------------- Caliper core (context, records) ----------------- *)
RECURSIVE LastIndexOf(_, _)
LastIndexOf(ctx, attr) ==
    IF ctx = <<>> THEN 0
    ELSE IF ctx[Len(ctx)][1] = attr THEN Len(ctx)
    ELSE LastIndexOf(SubSeq(ctx, 1, Len(ctx) - 1), attr)

\* Caliper::begin: open a region, the new node becomes the current one
Begin(ctx, attr, value) == Append(ctx, <<attr, value>>)

\* Caliper::end: close the innermost open region of the attribute
End(ctx, attr) ==
    LET i == LastIndexOf(ctx, attr)
    IN  IF i = 0 THEN ctx
        ELSE SubSeq(ctx, 1, i - 1) \o SubSeq(ctx, i + 1, Len(ctx))

\* Caliper::get(attr).node(): the node of the innermost region of attr, or null
GetNode(ctx, attr) ==
    LET i == LastIndexOf(ctx, attr)
    IN  IF i = 0 THEN Null ELSE SubSeq(ctx, 1, i)

\* Caliper::make_tree_entry: the child of parent holding (attr, value)
make_tree_entry(attr, value, parent) == Append(parent, <<attr, value>>)

\* util::demangle
demangle(name) == IF name = "_Z6matmulv" THEN "matmul()" ELSE name

\* roctracer_op_string(ACTIVITY_DOMAIN_HIP_API, cid, 0): the name of the API call
hip_api_name(cid) ==
    CASE cid = HIP_API_ID___hipPushCallConfiguration -> "__hipPushCallConfiguration"
      [] cid = HIP_API_ID___hipPopCallConfiguration -> "__hipPopCallConfiguration"
      [] cid = HIP_API_ID_hipLaunchKernel -> "hipLaunchKernel"
      [] cid = HIP_API_ID_hipExtLaunchKernel -> "hipExtLaunchKernel"
      [] cid = HIP_API_ID_hipModuleLaunchKernel -> "hipModuleLaunchKernel"
      [] cid = HIP_API_ID_hipExtModuleLaunchKernel -> "hipExtModuleLaunchKernel"
      [] cid = HIP_API_ID_hipHccModuleLaunchKernel -> "hipHccModuleLaunchKernel"
      [] OTHER -> "hipMemcpy"

\* roctracer_op_string for an activity record
roctracer_op_string(domain, op) ==
    IF op = HIP_OP_ID_COPY THEN <<domain, "CopyOp">> ELSE <<domain, "KernelOp">>

\* Caliper::make_record: num (attribute, value) fields and the parent branch
make_record(num, attr, data, parent) ==
    [ fields |-> [i \in 1..num |-> <<attr[i], data[i]>>], parent |-> parent ]

(* ------------------------- correlation map ----------------------------- *)
MapEnd == <<>>

\* std::map::find: the entry with this key, or end()
MapFind(map, id) ==
    IF \E e \in map : e[1] = id
    THEN CHOOSE e \in map : e[1] = id
    ELSE MapEnd

\* a mutant of MapAssign: m_correlation_map.insert({id, node}), which keeps an
\* entry the map already holds for the key
MapAssign_insert(map, id, node) ==
    IF \E e \in map : e[1] = id THEN map ELSE map \cup { <<id, node>> }

\* m_correlation_map[id] = node
MapAssign(map, id, node) == { e \in map : e[1] # id } \cup { <<id, node>> }

\* m_correlation_map.erase(it)
MapErase(map, it) == map \ { it }

(* ------------------------- service registration ----------------------- *)
Channels == { "A", "B" }

\* a Log(level).stream() statement
Msg(level, channel, text, values) ==
    [ level |-> level, channel |-> channel, text |-> text, values |-> values ]

NoRoctracer ==
    [ callback |-> 0, pools |-> {}, default |-> 0, activity |-> {}, requests |-> {} ]

\* what the log holds after register_roctracer and a post_init_cb without
\* failure on a channel
RunningLog(channel, enable) ==
    << Msg(1, channel, "Registered roctracer service", << IF enable THEN "on" ELSE "off" >>),
       Msg(1, channel, "Callbacks initialized", <<>>) >>
    \o (IF enable THEN << Msg(1, channel, "Tracing initialized", <<>>) >> ELSE <<>>)

\* the service as register_roctracer and post_init_cb leave it on channel A
\* when no roctracer call fails
InitRunning ==
    /\ s_instance = 1
    /\ heap = [ made |-> 1, live |-> { 1 } ]
    /\ m_roctracer_pool = IF m_enable_tracing THEN 1 ELSE 0
    /\ roctracer =
          IF m_enable_tracing
          THEN [ callback |-> 1, pools |-> { 1 }, default |-> 1,
                 activity |-> { << ACTIVITY_DOMAIN_HIP_OPS, 1 >>,
                                      << ACTIVITY_DOMAIN_HCC_OPS, 1 >> },
                        requests |-> {} ]
          ELSE [ NoRoctracer EXCEPT !.callback = 1 ]
    /\ pre_flush_evt = IF m_enable_tracing THEN { 1 } ELSE {}
    /\ log = RunningLog("A", m_enable_tracing)
    /\ channel_evt = [ ch \in Channels |-> IF ch = "A" THEN "post_init" ELSE "none" ]
    /\ fault = FALSE

(* ----------------------------- Init ------------------------------------ *)
NoLocals == [ id |-> 0, node |-> Null, it |-> MapEnd, ret |-> Null, tmp |-> 0 ]

NoFlush == [ n |-> 0, record |-> 0, rec |-> NoRecord, num_flushed |-> 0, num_records |-> 0 ]

NoLog == [ records |-> 0, flushed |-> 0, skipped |-> 0 ]

\* the members the constructor initialises and the threads before any callback
InitMembers ==
    /\ m_correlation_map = {}
    /\ m_correlation_map_mutex = NoThread
    /\ m_num_records = 0
    /\ m_num_flushed = 0
    /\ m_num_flushes = 0
    /\ m_num_correlations_stored = 0
    /\ m_num_correlations_found = 0
    /\ m_num_correlations_missed = 0
    /\ pc = [t \in Threads |-> "idle"]
    /\ blackboard = [t \in Threads |-> <<>>]
    /\ loc = [t \in Threads |-> NoLocals]
    /\ fl = NoFlush
    /\ flush_log = NoLog

InitProg ==
    /\ m_enable_tracing \in BOOLEAN
    /\ m_record_names \in BOOLEAN
    /\ InitMembers
    /\ InitRunning

(* ---------------- push_correlation / pop_correlation ------------------- *)
\* std::lock_guard<std::mutex> g(m_correlation_map_mutex) in push_correlation
push_lock(t) ==
    /\ pc[t] = "push_lock"
    /\ m_correlation_map_mutex = NoThread
    /\ m_correlation_map_mutex' = t
    /\ pc' = [pc EXCEPT ![t] = "push_write"]
    /\ UNCHANGED << config, m_correlation_map, counters, blackboard, loc, fl, flush_log >>

\* a mutant of push_write: an id that has an entry is rejected, the first node
\* stays
push_write_keep_first(t) ==
    /\ pc[t] = "push_write"
    /\ m_correlation_map' =
          IF \E e \in m_correlation_map : e[1] = loc[t].id THEN m_correlation_map
          ELSE MapAssign(m_correlation_map, loc[t].id, loc[t].node)
    /\ pc' = [pc EXCEPT ![t] = "push_unlock"]
    /\ UNCHANGED << config, m_correlation_map_mutex, counters, blackboard, loc, fl, flush_log >>

\* m_correlation_map[id] = node
push_write(t) ==
    /\ pc[t] = "push_write"
    /\ m_correlation_map' = MapAssign(m_correlation_map, loc[t].id, loc[t].node)
    /\ pc' = [pc EXCEPT ![t] = "push_unlock"]
    /\ UNCHANGED << config, m_correlation_map_mutex, counters, blackboard, loc, fl, flush_log >>

\* the lock_guard's destructor at the end of push_correlation
push_unlock(t) ==
    /\ pc[t] = "push_unlock"
    /\ m_correlation_map_mutex' = NoThread
    /\ pc' = [pc EXCEPT ![t] = "push_ret"]
    /\ UNCHANGED << config, m_correlation_map, counters, blackboard, loc, fl, flush_log >>

\* a mutant of pop_lock: pop_correlation without the lock_guard
pop_lock_unguarded(t) ==
    /\ pc[t] = "pop_lock"
    /\ m_correlation_map_mutex' = t
    /\ loc' = [loc EXCEPT ![t].ret = Null, ![t].it = MapEnd]
    /\ pc' = [pc EXCEPT ![t] = "pop_find"]
    /\ UNCHANGED << config, m_correlation_map, counters, blackboard, fl, flush_log >>

\* ret = nullptr; std::lock_guard<std::mutex> g(m_correlation_map_mutex)
pop_lock(t) ==
    /\ pc[t] = "pop_lock"
    /\ m_correlation_map_mutex = NoThread
    /\ m_correlation_map_mutex' = t
    /\ loc' = [loc EXCEPT ![t].ret = Null, ![t].it = MapEnd]
    /\ pc' = [pc EXCEPT ![t] = "pop_find"]
    /\ UNCHANGED << config, m_correlation_map, counters, blackboard, fl, flush_log >>

\* a mutant of pop_find: it = m_correlation_map.begin(), the first entry of the
\* map whatever its key
pop_find_begin(t) ==
    /\ pc[t] = "pop_find"
    /\ LET it == IF m_correlation_map = {} THEN MapEnd
                 ELSE CHOOSE e \in m_correlation_map :
                          \A o \in m_correlation_map : e[1] <= o[1]
       IN  loc' = [loc EXCEPT ![t].it = it,
                              ![t].ret = IF it # MapEnd THEN it[2] ELSE Null]
    /\ pc' = [pc EXCEPT ![t] = "pop_erase"]
    /\ UNCHANGED << config, m_correlation_map, m_correlation_map_mutex, counters,
                    blackboard, fl, flush_log >>

\* it = m_correlation_map.find(id); if found, ret = it->second
pop_find(t) ==
    /\ pc[t] = "pop_find"
    /\ LET it == MapFind(m_correlation_map, loc[t].id)
       IN  loc' = [loc EXCEPT ![t].it = it,
                              ![t].ret = IF it # MapEnd THEN it[2] ELSE Null]
    /\ pc' = [pc EXCEPT ![t] = "pop_erase"]
    /\ UNCHANGED << config, m_correlation_map, m_correlation_map_mutex, counters,
                    blackboard, fl, flush_log >>

\* a mutant of pop_erase: the entry is returned but left in the map
pop_erase_keep(t) ==
    /\ pc[t] = "pop_erase"
    /\ pc' = [pc EXCEPT ![t] = "pop_unlock"]
    /\ UNCHANGED << config, m_correlation_map, m_correlation_map_mutex, counters,
                    blackboard, loc, fl, flush_log >>

\* if found, m_correlation_map.erase(it)
pop_erase(t) ==
    /\ pc[t] = "pop_erase"
    /\ m_correlation_map' =
          IF loc[t].it # MapEnd THEN MapErase(m_correlation_map, loc[t].it)
          ELSE m_correlation_map
    /\ pc' = [pc EXCEPT ![t] = "pop_unlock"]
    /\ UNCHANGED << config, m_correlation_map_mutex, counters, blackboard, loc, fl, flush_log >>

\* a mutant of pop_unlock: the guard lives on in the caller, the mutex stays
\* locked while flush_record goes on
pop_unlock_keep(t) ==
    /\ pc[t] = "pop_unlock"
    /\ pc' = [pc EXCEPT ![t] = "pop_ret"]
    /\ UNCHANGED << config, m_correlation_map, m_correlation_map_mutex, counters,
                    blackboard, loc, fl, flush_log >>

\* return ret: the lock_guard's destructor at the end of pop_correlation
pop_unlock(t) ==
    /\ pc[t] = "pop_unlock"
    /\ m_correlation_map_mutex' = NoThread
    /\ pc' = [pc EXCEPT ![t] = "pop_ret"]
    /\ UNCHANGED << config, m_correlation_map, counters, blackboard, loc, fl, flush_log >>

(* ------------------------- hip_api_callback ---------------------------- *)
IsSkipped(cid) ==
    \/ cid = HIP_API_ID___hipPushCallConfiguration
    \/ cid = HIP_API_ID___hipPopCallConfiguration

\* the switch (cid) that fetches the kernel name of a launch call
KernelNameOf(cid, kernel_name) ==
    IF cid \in { HIP_API_ID_hipLaunchKernel, HIP_API_ID_hipExtLaunchKernel }
    THEN kernel_name
    ELSE IF cid \in { HIP_API_ID_hipModuleLaunchKernel,
                      HIP_API_ID_hipExtModuleLaunchKernel,
                      HIP_API_ID_hipHccModuleLaunchKernel }
    THEN kernel_name
    ELSE ""

\* the node an ENTER callback stores: the rocm.api node of the context after
\* begin, or its rocm.kernel.name child when a kernel name is recorded
CorrelationNode(ctx, cid, kernel_name) ==
    LET kernel == IF m_record_names THEN KernelNameOf(cid, kernel_name) ELSE ""
        node   == GetNode(ctx, m_api_attr)
    IN  IF kernel # ""
        THEN make_tree_entry(m_kernel_name_attr, demangle(kernel), node)
        ELSE node

\* a mutant of hip_api_callback: the node is stored whether or not activity
\* tracing is enabled
hip_api_callback_always_push(t, cid, phase, correlation_id, kernel_name) ==
    /\ pc[t] = "idle"
    /\ IF IsSkipped(cid)
       THEN UNCHANGED << pc, blackboard, loc >>
       ELSE IF phase = ACTIVITY_API_PHASE_ENTER
       THEN LET ctx  == Begin(blackboard[t], m_api_attr, hip_api_name(cid))
                node == CorrelationNode(ctx, cid, kernel_name)
            IN  /\ blackboard' = [blackboard EXCEPT ![t] = ctx]
                /\ IF node # Null
                   THEN /\ loc' = [loc EXCEPT ![t].id = correlation_id, ![t].node = node]
                        /\ pc' = [pc EXCEPT ![t] = "push_lock"]
                   ELSE UNCHANGED << pc, loc >>
       ELSE /\ blackboard' = [blackboard EXCEPT ![t] = End(blackboard[t], m_api_attr)]
            /\ UNCHANGED << pc, loc >>
    /\ UNCHANGED << config, m_correlation_map, m_correlation_map_mutex, counters, fl, flush_log >>

\* hip_api_callback up to its call of push_correlation (or to its return)
hip_api_callback(t, cid, phase, correlation_id, kernel_name) ==
    /\ pc[t] = "idle"
    /\ IF IsSkipped(cid)
       THEN UNCHANGED << pc, blackboard, loc >>
       ELSE IF phase = ACTIVITY_API_PHASE_ENTER
       THEN LET ctx  == Begin(blackboard[t], m_api_attr, hip_api_name(cid))
                node == CorrelationNode(ctx, cid, kernel_name)
            IN  /\ blackboard' = [blackboard EXCEPT ![t] = ctx]
                /\ IF m_enable_tracing /\ node # Null
                   THEN /\ loc' = [loc EXCEPT ![t].id = correlation_id, ![t].node = node]
                        /\ pc' = [pc EXCEPT ![t] = "push_lock"]
                   ELSE UNCHANGED << pc, loc >>
       ELSE /\ blackboard' = [blackboard EXCEPT ![t] = End(blackboard[t], m_api_attr)]
            /\ UNCHANGED << pc, loc >>
    /\ UNCHANGED << config, m_correlation_map, m_correlation_map_mutex, counters, fl, flush_log >>

\* ++instance->m_num_correlations_stored: the read
inc_stored_read(t) ==
    /\ pc[t] = "push_ret"
    /\ loc' = [loc EXCEPT ![t].tmp = m_num_correlations_stored]
    /\ pc' = [pc EXCEPT ![t] = "stored_write"]
    /\ UNCHANGED << config, m_correlation_map, m_correlation_map_mutex, counters,
                    blackboard, fl, flush_log >>

\* ++instance->m_num_correlations_stored: the write, and the callback returns
\* (its locals go out of scope)
inc_stored_write(t) ==
    /\ pc[t] = "stored_write"
    /\ m_num_correlations_stored' = loc[t].tmp + 1
    /\ loc' = [loc EXCEPT ![t] = NoLocals]
    /\ pc' = [pc EXCEPT ![t] = "idle"]
    /\ UNCHANGED << config, m_correlation_map, m_correlation_map_mutex,
                    m_num_records, m_num_flushed, m_num_flushes,
                    m_num_correlations_found, m_num_correlations_missed,
                    blackboard, fl, flush_log >>

(* ------------------ flush_activity_records / flush_record -------------- *)
\* a mutant of IsOpsDomain: only ACTIVITY_DOMAIN_HIP_OPS passes
IsOpsDomain_hip_only(domain) == domain = ACTIVITY_DOMAIN_HIP_OPS

IsOpsDomain(domain) ==
    domain = ACTIVITY_DOMAIN_HIP_OPS \/ domain = ACTIVITY_DOMAIN_HCC_OPS

\* Attribute attr[7]
ActivityAttr ==
    << m_activity_name_attr, m_activity_start_attr, m_activity_end_attr,
       m_activity_duration_attr, m_activity_device_id_attr, m_activity_queue_id_attr,
       m_activity_bytes_attr >>

\* Variant data[7], with the byte count in data[6] (0-based) for a copy
ActivityData(record) ==
    << roctracer_op_string(record.domain, record.op),
       record.begin_ns,
       record.end_ns,
       record.end_ns - record.begin_ns,
       record.device_id,
       record.queue_id,
       IF record.op = HIP_OP_ID_COPY THEN record.bytes ELSE 0 >>

\* a mutant of ActivityNum: the byte count is appended for every operation
ActivityNum_always_bytes(record) == 7

\* size_t num = 6; if (record->op == HIP_OP_ID_COPY) data[num++] = ...
ActivityNum(record) == IF record.op = HIP_OP_ID_COPY THEN 7 ELSE 6

\* FixedSizeSnapshotRecord<8>
SnapshotCapacity == 8

\* the snapshot flush_record builds for a record and the popped parent
ActivitySnapshot(record, parent) ==
    make_record(ActivityNum(record), ActivityAttr, ActivityData(record), parent)

\* rt_activity_callback -> flush_activity_records(begin, end) up to the loop;
\* n is the number of records in [begin, end)
rt_activity_callback(t, n) ==
    /\ pc[t] = "idle"
    /\ blackboard' = [blackboard EXCEPT
                        ![t] = Begin(blackboard[t], m_flush_region_attr, "ROCTRACER FLUSH")]
    /\ fl' = [ n |-> n, record |-> 0, rec |-> NoRecord,
               num_flushed |-> 0, num_records |-> 0 ]
    /\ pc' = [pc EXCEPT ![t] = "loop"]
    /\ UNCHANGED << config, m_correlation_map, m_correlation_map_mutex, counters, loc,
                    flush_log >>

\* a mutant of flush_record: the loop condition is record <= end_record
flush_record_inclusive(t, rec) ==
    /\ pc[t] = "loop"
    /\ fl.record <= fl.n
    /\ fl' = [fl EXCEPT !.rec = rec]
    /\ IF IsOpsDomain(rec.domain)
       THEN /\ loc' = [loc EXCEPT ![t].id = rec.correlation_id]
            /\ pc' = [pc EXCEPT ![t] = "pop_lock"]
       ELSE /\ pc' = [pc EXCEPT ![t] = "next_record"]
            /\ UNCHANGED loc
    /\ UNCHANGED << config, m_correlation_map, m_correlation_map_mutex, counters,
                    blackboard, flush_log >>

\* while (record < end_record): flush_record(c, record) up to pop_correlation;
\* rec is the record the buffer holds at this position
flush_record(t, rec) ==
    /\ pc[t] = "loop"
    /\ fl.record < fl.n
    /\ fl' = [fl EXCEPT !.rec = rec]
    /\ IF IsOpsDomain(rec.domain)
       THEN /\ loc' = [loc EXCEPT ![t].id = rec.correlation_id]
            /\ pc' = [pc EXCEPT ![t] = "pop_lock"]
       ELSE /\ pc' = [pc EXCEPT ![t] = "next_record"]
            /\ UNCHANGED loc
    /\ UNCHANGED << config, m_correlation_map, m_correlation_map_mutex, counters,
                    blackboard, flush_log >>

\* a mutant of flush_record_finish: make_record(num, attr, data) without the
\* parent node
flush_record_finish_noparent(t) ==
    /\ pc[t] = "pop_ret"
    /\ LET parent == loc[t].ret
       IN  /\ IF parent # Null
              THEN /\ m_num_correlations_found' = m_num_correlations_found + 1
                   /\ UNCHANGED m_num_correlations_missed
              ELSE /\ m_num_correlations_missed' = m_num_correlations_missed + 1
                   /\ UNCHANGED m_num_correlations_found
           /\ dispatched' = Append(dispatched, ActivitySnapshot(fl.rec, Null))
    /\ fl' = [fl EXCEPT !.num_flushed = fl.num_flushed + 1]
    /\ pc' = [pc EXCEPT ![t] = "next_record"]
    /\ loc' = [loc EXCEPT ![t] = NoLocals]
    /\ UNCHANGED << config, m_correlation_map, m_correlation_map_mutex,
                    m_num_records, m_num_flushed, m_num_flushes,
                    m_num_correlations_stored, blackboard, flush_log >>

\* a mutant of flush_record_finish: a record without a correlation entry is
\* counted as missed and dropped (return 0 before the snapshot is built)
flush_record_finish_dropmiss(t) ==
    /\ pc[t] = "pop_ret"
    /\ LET parent == loc[t].ret
       IN  IF parent # Null
           THEN /\ m_num_correlations_found' = m_num_correlations_found + 1
                /\ UNCHANGED m_num_correlations_missed
                /\ dispatched' = Append(dispatched, ActivitySnapshot(fl.rec, parent))
                /\ fl' = [fl EXCEPT !.num_flushed = fl.num_flushed + 1]
           ELSE /\ m_num_correlations_missed' = m_num_correlations_missed + 1
                /\ UNCHANGED << m_num_correlations_found, dispatched, fl >>
    /\ pc' = [pc EXCEPT ![t] = "next_record"]
    /\ loc' = [loc EXCEPT ![t] = NoLocals]
    /\ UNCHANGED << config, m_correlation_map, m_correlation_map_mutex,
                    m_num_records, m_num_flushed, m_num_flushes,
                    m_num_correlations_stored, blackboard, flush_log >>

\* the rest of flush_record after pop_correlation returned the parent; its
\* locals go out of scope when it returns
flush_record_finish(t) ==
    /\ pc[t] = "pop_ret"
    /\ LET parent == loc[t].ret
       IN  /\ IF parent # Null
              THEN /\ m_num_correlations_found' = m_num_correlations_found + 1
                   /\ UNCHANGED m_num_correlations_missed
              ELSE /\ m_num_correlations_missed' = m_num_correlations_missed + 1
                   /\ UNCHANGED m_num_correlations_found
           /\ dispatched' = Append(dispatched, ActivitySnapshot(fl.rec, parent))
    /\ fl' = [fl EXCEPT !.num_flushed = fl.num_flushed + 1]
    /\ pc' = [pc EXCEPT ![t] = "next_record"]
    /\ loc' = [loc EXCEPT ![t] = NoLocals]
    /\ UNCHANGED << config, m_correlation_map, m_correlation_map_mutex,
                    m_num_records, m_num_flushed, m_num_flushes,
                    m_num_correlations_stored, blackboard, flush_log >>

\* a mutant of next_record: the result of roctracer_next_record is ignored
next_record_continue(t, ok) ==
    /\ pc[t] = "next_record"
    /\ fl' = [fl EXCEPT !.num_records = fl.num_records + 1,
                        !.record = fl.record + 1, !.rec = NoRecord]
    /\ pc' = [pc EXCEPT ![t] = "loop"]
    /\ UNCHANGED << config, m_correlation_map, m_correlation_map_mutex, counters,
                    blackboard, loc, flush_log >>

\* a mutant of next_record: a failure of roctracer_next_record returns from
\* flush_activity_records at once
next_record_return(t, ok) ==
    /\ pc[t] = "next_record"
    /\ IF ok
       THEN /\ fl' = [fl EXCEPT !.num_records = fl.num_records + 1,
                                !.record = fl.record + 1, !.rec = NoRecord]
            /\ pc' = [pc EXCEPT ![t] = "loop"]
       ELSE /\ fl' = [fl EXCEPT !.num_records = fl.num_records + 1, !.rec = NoRecord]
            /\ pc' = [pc EXCEPT ![t] = "idle"]
    /\ UNCHANGED << config, m_correlation_map, m_correlation_map_mutex, counters,
                    blackboard, loc, flush_log >>

\* ++num_records; if (roctracer_next_record(record, &record) != 0) break;
next_record(t, ok) ==
    /\ pc[t] = "next_record"
    /\ IF ok
       THEN /\ fl' = [fl EXCEPT !.num_records = fl.num_records + 1,
                                !.record = fl.record + 1, !.rec = NoRecord]
            /\ pc' = [pc EXCEPT ![t] = "loop"]
       ELSE /\ fl' = [fl EXCEPT !.num_records = fl.num_records + 1, !.rec = NoRecord]
            /\ pc' = [pc EXCEPT ![t] = "flush_finish"]
    /\ UNCHANGED << config, m_correlation_map, m_correlation_map_mutex, counters,
                    blackboard, loc, flush_log >>

\* the loop condition record < end_record is false
flush_loop_exit(t) ==
    /\ pc[t] = "loop"
    /\ ~ (fl.record < fl.n)
    /\ pc' = [pc EXCEPT ![t] = "flush_finish"]
    /\ UNCHANGED << config, m_correlation_map, m_correlation_map_mutex, counters,
                    blackboard, loc, fl, flush_log >>

\* after the loop: the log message, the counters, c->end(m_flush_region_attr)
flush_end(t) ==
    /\ pc[t] = "flush_finish"
    /\ flush_log' = [ records |-> fl.num_records, flushed |-> fl.num_flushed,
                      skipped |-> fl.num_records - fl.num_flushed ]
    /\ m_num_flushed' = m_num_flushed + fl.num_flushed
    /\ m_num_records' = m_num_records + fl.num_records
    /\ m_num_flushes' = m_num_flushes + 1
    /\ blackboard' = [blackboard EXCEPT ![t] = End(blackboard[t], m_flush_region_attr)]
    /\ pc' = [pc EXCEPT ![t] = "idle"]
    /\ UNCHANGED << config, m_correlation_map, m_correlation_map_mutex,
                    m_num_correlations_stored, m_num_correlations_found,
                    m_num_correlations_missed, loc, fl >>

(* ------------------- registration and channel events ------------------- *)
\* the results of the roctracer calls of init_callbacks and init_tracing
InitResults ==
    [ callback : BOOLEAN, open : BOOLEAN, default : BOOLEAN, hip_ops : BOOLEAN,
      hcc_ops : BOOLEAN ]

\* how far init_tracing gets: the call that fails, "done", or "off" when
\* post_init_cb does not call it
TracingStage(ok) ==
    IF ~ m_enable_tracing THEN "off"
    ELSE IF ~ ok.open THEN "roctracer_open_pool_expl()"
    ELSE IF ~ ok.default THEN "roctracer_default_pool_expl()"
    ELSE IF ~ ok.hip_ops THEN "roctracer_enable_activity_expl() HIP_OPS"
    ELSE IF ~ ok.hcc_ops THEN "roctracer_enable_activity_expl() HCC_OPS"
    ELSE "done"

\* register_roctracer: the new instance (constructor included) replaces
\* s_instance and the channel's events are connected
register_roctracer(channel, trace_activities, record_kernel_names) ==
    /\ ~ fault
    /\ channel_evt[channel] = "none"
    /\ LET this == heap.made + 1
           log1 == IF s_instance # 0
                   THEN Append(log, Msg(0, channel,
                                        "roctracer service is already active, disabling!", <<>>))
                   ELSE log
       IN  /\ s_instance' = this
           /\ heap' = [ made |-> this, live |-> heap.live \cup { this } ]
           /\ log' = Append(log1, Msg(1, channel, "Registered roctracer service",
                                      << IF trace_activities THEN "on" ELSE "off" >>))
    /\ m_enable_tracing' = trace_activities
    /\ m_record_names' = record_kernel_names
    /\ m_num_records' = 0
    /\ m_num_flushed' = 0
    /\ m_num_flushes' = 0
    /\ m_num_correlations_stored' = 0
    /\ m_num_correlations_found' = 0
    /\ m_num_correlations_missed' = 0
    /\ m_roctracer_pool' = 0
    /\ m_correlation_map' = {}
    /\ m_correlation_map_mutex' = NoThread
    /\ channel_evt' = [channel_evt EXCEPT ![channel] = "registered"]
    /\ UNCHANGED << roctracer, pre_flush_evt, fault, pc, blackboard, loc, fl, flush_log,
                    umpire >>

\* post_init_cb: init_callbacks, then init_tracing if tracing is enabled; ok
\* holds the results of the roctracer calls
post_init_cb(channel, ok) ==
    LET this  == s_instance
        stage == TracingStage(ok)
        opened    == stage \notin { "off", "roctracer_open_pool_expl()" }
        defaulted == opened /\ stage # "roctracer_default_pool_expl()"
        hip_ops   == stage \in { "roctracer_enable_activity_expl() HCC_OPS", "done" }
        hcc_ops   == stage = "done"
        log1 == Append(log, IF ok.callback
                            THEN Msg(1, channel, "Callbacks initialized", <<>>)
                            ELSE Msg(0, channel, "enable callback (HIP)", <<>>))
    IN  /\ roctracer' =
              [ callback |-> IF ok.callback THEN this ELSE roctracer.callback,
                pools    |-> roctracer.pools \cup (IF opened THEN { this } ELSE {}),
                default  |-> IF defaulted THEN this ELSE roctracer.default,
                activity |-> roctracer.activity
                                \cup (IF hip_ops THEN { << ACTIVITY_DOMAIN_HIP_OPS, this >> } ELSE {})
                                \cup (IF hcc_ops THEN { << ACTIVITY_DOMAIN_HCC_OPS, this >> } ELSE {}),
                requests |-> roctracer.requests ]
        /\ m_roctracer_pool' = IF opened THEN this ELSE m_roctracer_pool
        /\ pre_flush_evt' = pre_flush_evt \cup (IF stage = "done" THEN { this } ELSE {})
        /\ log' = IF stage = "off" THEN log1
                  ELSE IF stage = "done"
                  THEN Append(log1, Msg(1, channel, "Tracing initialized", <<>>))
                  ELSE Append(log1, Msg(0, channel, stage, <<>>))

\* a mutant of pre_finish_cb: finish_callbacks is not called
pre_finish_cb_keep_callbacks(channel) ==
    LET closed == IF m_roctracer_pool # 0 THEN m_roctracer_pool ELSE roctracer.default
    IN  IF m_enable_tracing
        THEN /\ roctracer' =
                   [ callback |-> roctracer.callback,
                     pools    |-> roctracer.pools \ { closed },
                     default  |-> IF roctracer.default = closed THEN 0 ELSE roctracer.default,
                     activity |-> {},
                     requests |-> roctracer.requests ]
             /\ m_roctracer_pool' = 0
             /\ log' = Append(log, Msg(1, channel, "Tracing stopped", <<>>))
             /\ UNCHANGED pre_flush_evt
        ELSE UNCHANGED << roctracer, log, m_roctracer_pool, pre_flush_evt >>

\* pre_finish_cb: finish_callbacks, then finish_tracing if tracing is enabled
\* (roctracer_close_pool_expl(nullptr) closes the default pool)
pre_finish_cb(channel) ==
    LET log1   == Append(log, Msg(1, channel, "Callbacks stopped", <<>>))
        closed == IF m_roctracer_pool # 0 THEN m_roctracer_pool ELSE roctracer.default
    IN  IF m_enable_tracing
        THEN /\ roctracer' =
                   [ callback |-> 0,
                     pools    |-> roctracer.pools \ { closed },
                     default  |-> IF roctracer.default = closed THEN 0 ELSE roctracer.default,
                     activity |-> {},
                     requests |-> roctracer.requests ]
             /\ m_roctracer_pool' = 0
             /\ log' = Append(log1, Msg(1, channel, "Tracing stopped", <<>>))
             /\ UNCHANGED pre_flush_evt
        ELSE /\ roctracer' = [roctracer EXCEPT !.callback = 0]
             /\ log' = log1
             /\ UNCHANGED << m_roctracer_pool, pre_flush_evt >>

\* finish_cb that adds the entries left in the map to the missed count
finish_cb_count_orphans(channel) ==
    /\ log' = IF m_enable_tracing
              THEN log \o
                   << Msg(1, channel, "activity flushes, records processed, records flushed",
                          << m_num_flushes, m_num_records, m_num_flushed >>),
                      Msg(2, channel, "correlations stored; found, missed",
                          << m_num_correlations_stored, m_num_correlations_found,
                             m_num_correlations_missed + Cardinality(m_correlation_map) >>) >>
              ELSE log
    /\ UNCHANGED << roctracer, m_roctracer_pool, pre_flush_evt >>

\* finish_cb: the final counters go to the log if tracing is enabled
finish_cb(channel) ==
    /\ log' = IF m_enable_tracing
              THEN log \o
                   << Msg(1, channel, "activity flushes, records processed, records flushed",
                          << m_num_flushes, m_num_records, m_num_flushed >>),
                      Msg(2, channel, "correlations stored; found, missed",
                          << m_num_correlations_stored, m_num_correlations_found,
                             m_num_correlations_missed >>) >>
              ELSE log
    /\ UNCHANGED << roctracer, m_roctracer_pool, pre_flush_evt >>

\* pre_flush_cb: roctracer_flush_activity_expl(m_roctracer_pool); roctracer
\* notes the pool it was asked to flush and whether that pool was open
pre_flush_cb ==
    /\ roctracer' =
          [roctracer EXCEPT !.requests =
              @ \cup { << m_roctracer_pool, m_roctracer_pool \in roctracer.pools >> }]
    /\ UNCHANGED << s_instance, heap, m_roctracer_pool, pre_flush_evt, log, channel_evt, fault,
                    m_enable_tracing, m_record_names, m_correlation_map,
                    m_correlation_map_mutex, counters, pc, blackboard, loc, fl, flush_log,
                    umpire >>

\* the lambda connected to post_init_evt: s_instance->post_init_cb(c, channel)
post_init_evt(channel, ok) ==
    /\ ~ fault
    /\ channel_evt[channel] = "registered"
    /\ channel_evt' = [channel_evt EXCEPT ![channel] = "post_init"]
    /\ IF s_instance = 0
       THEN /\ fault' = TRUE
            /\ UNCHANGED << roctracer, m_roctracer_pool, pre_flush_evt, log >>
       ELSE /\ post_init_cb(channel, ok)
            /\ UNCHANGED fault
    /\ UNCHANGED << s_instance, heap, m_enable_tracing, m_record_names, m_correlation_map,
                    m_correlation_map_mutex, counters, pc, blackboard, loc, fl, flush_log,
                    umpire >>

\* the lambda connected to pre_finish_evt: s_instance->pre_finish_cb(c, channel)
pre_finish_evt(channel) ==
    /\ ~ fault
    /\ channel_evt[channel] = "post_init"
    /\ channel_evt' = [channel_evt EXCEPT ![channel] = "pre_finish"]
    /\ IF s_instance = 0
       THEN /\ fault' = TRUE
            /\ UNCHANGED << roctracer, m_roctracer_pool, pre_flush_evt, log >>
       ELSE /\ pre_finish_cb(channel)
            /\ UNCHANGED fault
    /\ UNCHANGED << s_instance, heap, m_enable_tracing, m_record_names, m_correlation_map,
                    m_correlation_map_mutex, counters, pc, blackboard, loc, fl, flush_log,
                    umpire >>

\* the lambda connected to finish_evt: s_instance->finish_cb(c, channel);
\* delete s_instance; s_instance = nullptr
finish_evt(channel) ==
    /\ ~ fault
    /\ channel_evt[channel] = "pre_finish"
    /\ channel_evt' = [channel_evt EXCEPT ![channel] = "finish"]
    /\ IF s_instance = 0
       THEN /\ fault' = TRUE
            /\ UNCHANGED << roctracer, m_roctracer_pool, pre_flush_evt, log, s_instance, heap >>
       ELSE /\ finish_cb(channel)
            /\ heap' = [heap EXCEPT !.live = @ \ { s_instance }]
            /\ s_instance' = 0
            /\ UNCHANGED fault
    /\ UNCHANGED << m_enable_tracing, m_record_names, m_correlation_map,
                    m_correlation_map_mutex, counters, pc, blackboard, loc, fl, flush_log,
                    umpire >>

(* ------------------------- Umpire service ------------------------------ *)
\* the attributes the Umpire service creates (by name)
m_alloc_name_attr == "umpire.alloc.name"
m_alloc_current_size_attr == "umpire.alloc.current.size"
m_alloc_actual_size_attr == "umpire.alloc.actual.size"
m_alloc_hwm_attr == "umpire.alloc.highwatermark"
m_alloc_count_attr == "umpire.alloc.count"
m_total_size_attr == "umpire.total.size"
m_total_count_attr == "umpire.total.count"

\* Node m_root_node(CALI_INV_ID, CALI_INV_ID, Variant())
m_root_node == << << "CALI_INV_ID", "" >> >>

\* FixedSizeSnapshotRecord<60> context
ContextCapacity == 60
\* FixedSizeSnapshotRecord<64> rec
AllocatorRecordCapacity == 64

\* the names Umpire knows allocators by
AllocatorNames == { "HOST", "DEVICE" }

\* FixedSizeSnapshotRecord<N>: an empty record of N slots
NewRecord(capacity) ==
    [ fields |-> <<>>, capacity |-> capacity, skipped |-> 0, parent |-> Null ]

\* SnapshotBuilder::append(attribute, value): the field is added, or dropped
\* if the capacity is reached
builder_append(rec, field) ==
    IF Len(rec.fields) < rec.capacity
    THEN [rec EXCEPT !.fields = Append(@, field)]
    ELSE [rec EXCEPT !.skipped = @ + 1]

\* SnapshotBuilder::append(view): the entries of the view one by one, i.e. as
\* many of them as there are slots left, the others dropped
builder_append_view(rec, view) ==
    LET room == rec.capacity - Len(rec.fields)
        n    == IF Len(view) < room THEN Len(view) ELSE room
    IN  [rec EXCEPT !.fields = @ \o SubSeq(view, 1, n),
                    !.skipped = @ + (Len(view) - n)]

\* Caliper::make_record(num, attr, data, builder, parent): num fields appended
\* to the builder in order, under the parent
make_record_in(num, attr, data, rec, parent) ==
    [ builder_append_view(rec, [i \in 1 .. num |-> << attr[i], data[i] >>])
        EXCEPT !.parent = parent ]

\* rm.getAllocator(name)
getAllocator(name) ==
    rm[CHOOSE i \in 1 .. Len(rm) : rm[i].name = name]

\* rm.getAllocatorNames()
getAllocatorNames == [i \in 1 .. Len(rm) |-> rm[i].name]

NoUmLocals ==
    [ context |-> NewRecord(ContextCapacity), total_size |-> 0, total_count |-> 0,
      names |-> <<>>, i |-> 0 ]

\* the Umpire service after umpire_register, and Umpire without allocators
InitUmpire ==
    /\ m_per_allocator_stats \in BOOLEAN
    /\ rm = <<>>
    /\ snapshot_rec = NewRecord(0)
    /\ um = NoUmLocals
    /\ um_pc = "idle"
    /\ processed = <<>>
    /\ events = [ snapshot |-> 0, process_snapshot |-> 0 ]

\* process_allocator: the record built for one allocator
AllocatorRecord(name, alloc, context) ==
    make_record_in(5,
        << m_alloc_name_attr, m_alloc_actual_size_attr, m_alloc_current_size_attr,
           m_alloc_hwm_attr, m_alloc_count_attr >>,
        << name, alloc.actual_size, alloc.current_size, alloc.hwm, alloc.count >>,
        builder_append_view(NewRecord(AllocatorRecordCapacity), context.fields),
        m_root_node)

\* UmpireService::snapshot up to its loop; info is the trigger info, context
\* what pull_context finds on the blackboard, rec the builder of the snapshot
snapshot_begin(info, context, rec) ==
    /\ um_pc = "idle"
    /\ snapshot_rec' = rec
    /\ um' = [ context     |-> IF m_per_allocator_stats
                               THEN builder_append_view(
                                        builder_append_view(NewRecord(ContextCapacity), info),
                                        context)
                               ELSE NewRecord(ContextCapacity),
               total_size  |-> 0,
               total_count |-> 0,
               names       |-> getAllocatorNames,
               i           |-> 1 ]
    /\ um_pc' = "loop"
    /\ UNCHANGED << m_per_allocator_stats, rm, rocprog >>

\* a mutant of snapshot_allocator: process_allocator is called whether or not
\* per-allocator statistics are enabled
snapshot_allocator_always ==
    /\ um_pc = "loop"
    /\ um.i <= Len(um.names)
    /\ LET s     == um.names[um.i]
           alloc == getAllocator(s)
       IN  /\ um' = [um EXCEPT !.total_size = @ + alloc.current_size,
                               !.total_count = @ + alloc.count,
                               !.i = @ + 1]
           /\ processed' = Append(processed, AllocatorRecord(s, alloc, um.context))
           /\ events' = [events EXCEPT !.process_snapshot = @ + 1]
    /\ UNCHANGED << m_per_allocator_stats, rm, snapshot_rec, um_pc, rocprog >>

\* one turn of for (auto s : rm.getAllocatorNames())
snapshot_allocator ==
    /\ um_pc = "loop"
    /\ um.i <= Len(um.names)
    /\ LET s     == um.names[um.i]
           alloc == getAllocator(s)
       IN  /\ um' = [um EXCEPT !.total_size = @ + alloc.current_size,
                               !.total_count = @ + alloc.count,
                               !.i = @ + 1]
           /\ IF m_per_allocator_stats
              THEN /\ processed' = Append(processed, AllocatorRecord(s, alloc, um.context))
                   /\ events' = [events EXCEPT !.process_snapshot = @ + 1]
              ELSE UNCHANGED << processed, events >>
    /\ UNCHANGED << m_per_allocator_stats, rm, snapshot_rec, um_pc, rocprog >>

\* after the loop: the two totals are appended and snapshot returns
snapshot_end ==
    /\ um_pc = "loop"
    /\ um.i > Len(um.names)
    /\ snapshot_rec' =
          builder_append(builder_append(snapshot_rec, << m_total_size_attr, um.total_size >>),
                         << m_total_count_attr, um.total_count >>)
    /\ um' = NoUmLocals
    /\ um_pc' = "ret"
    /\ UNCHANGED << m_per_allocator_stats, rm, processed, events, rocprog >>

(* ------------------- environment and observation ----------------------- *)
VARIABLES
    callstack,     \* each application thread's HIP API calls in flight (innermost
                   \* last), each with the thread's context when it was entered
    numEvents,     \* events the environment has produced so far
    absMap,        \* per id: the node of the latest completed push_correlation
                   \* that no pop_correlation has taken yet, or Null
    last,          \* per application thread: the last HIP API callback it got
    obs,           \* what the flush in progress has done so far
    tally,         \* counts: push_correlation writes and successful pops per id,
                   \* records read by the flush loop, pops that returned null,
                   \* push_correlation writes over an existing entry
    history        \* per id: the completed correlation-store calls,
                   \* in the order of their critical sections

env == << callstack, numEvents, absMap, last, obs, tally, history, dispatched >>

vars == << prog, env >>

NoCall ==
    [ phase |-> "none", cid |-> "none", id |-> 0, node |-> Null,
      stored0 |-> 0, ctx0 |-> <<>> ]

\* ctx0: the thread's context when the buffer arrived; expect, map0: the
\* pending node of the looked-up id and the map when pop_correlation took the
\* mutex; found0, missed0: the counters when flush_record began; inflight: the
\* application's API calls in flight at that moment; positions: the buffer
\* positions read; nseen, nops: records and activity records read; lookups,
\* misses, ndispatched: pop_correlation calls, null results, snapshots;
\* failed: roctracer_next_record failed; afterFail: records read after that
NoObs ==
    [ ctx0 |-> <<>>, expect |-> Null, map0 |-> {}, found0 |-> 0, missed0 |-> 0,
      inflight |-> 0, positions |-> <<>>, nseen |-> 0, nops |-> 0, lookups |-> 0,
      misses |-> 0, ndispatched |-> 0, failed |-> FALSE, afterFail |-> 0 ]

\* a record of the HIP_OPS or HCC_OPS activity domain
IsActivity(rec) ==
    rec.domain \in { ACTIVITY_DOMAIN_HIP_OPS, ACTIVITY_DOMAIN_HCC_OPS }

InitEnv ==
    /\ callstack = [t \in AppThreads |-> <<>>]
    /\ numEvents = 0
    /\ absMap = [id \in Ids |-> Null]
    /\ last = [t \in AppThreads |-> NoCall]
    /\ obs = NoObs
    /\ tally = [ pushed |-> [id \in Ids |-> 0], taken |-> [id \in Ids |-> 0], seen |-> 0,
                 nulls |-> 0, dups |-> 0, buffers |-> 0 ]
    /\ history = [id \in Ids |-> <<>>]
    /\ dispatched = <<>>

\* the Umpire service with its default configuration and nothing to do
InitUmpireIdle == InitUmpire /\ m_per_allocator_stats

Init == InitProg /\ InitEnv /\ InitUmpireIdle

\* the arguments of an ENTER callback: the correlation id and the kernel name
\* matter only where hip_api_callback reads them
EnterArgs ==
    { a \in [ cid : CallIds, id : Ids, kernel_name : KernelNames ] :
        /\ IsSkipped(a.cid) => a.id = 1
        /\ KernelNameOf(a.cid, "x") = "" => a.kernel_name = "" }

\* the HIP runtime enters an API call on thread t
ApiEnter(t) ==
    \E a \in EnterArgs :
        /\ numEvents < MaxEvents
        /\ hip_api_callback(t, a.cid, ACTIVITY_API_PHASE_ENTER, a.id, a.kernel_name)
        /\ callstack' = [callstack EXCEPT
                           ![t] = Append(@, [cid |-> a.cid, ctx |-> blackboard[t]])]
        /\ numEvents' = numEvents + 1
        /\ last' = [last EXCEPT
                      ![t] = [ phase |-> ACTIVITY_API_PHASE_ENTER, cid |-> a.cid,
                               id |-> a.id,
                               node |-> IF pc'[t] = "push_lock" THEN loc'[t].node ELSE Null,
                               stored0 |-> m_num_correlations_stored,
                               ctx0 |-> blackboard[t] ]]
        /\ UNCHANGED << absMap, obs, tally, history, dispatched >>

\* the HIP runtime leaves the innermost API call of thread t
ApiExit(t) ==
    /\ callstack[t] # <<>>
    /\ LET top == callstack[t][Len(callstack[t])]
       IN  /\ hip_api_callback(t, top.cid, ACTIVITY_API_PHASE_EXIT, 1, "")
           /\ last' = [last EXCEPT
                         ![t] = [ phase |-> ACTIVITY_API_PHASE_EXIT, cid |-> top.cid,
                                  id |-> 0, node |-> Null,
                                  stored0 |-> m_num_correlations_stored,
                                  ctx0 |-> top.ctx ]]
    /\ callstack' = [callstack EXCEPT ![t] = SubSeq(@, 1, Len(@) - 1)]
    /\ UNCHANGED << numEvents, absMap, obs, tally, history, dispatched >>

\* push_correlation's write as the store's clients see it
PushWrite(t) ==
    /\ push_write(t)
    /\ absMap' = [absMap EXCEPT ![loc[t].id] = loc[t].node]
    /\ tally' = [tally EXCEPT !.pushed[loc[t].id] = @ + 1,
                              !.dups = @ + (IF \E e \in m_correlation_map : e[1] = loc[t].id
                                            THEN 1 ELSE 0)]
    /\ UNCHANGED << callstack, numEvents, last, obs, history, dispatched >>

\* roctracer delivers a buffer of n records on thread t (the activity pool
\* exists only when tracing is enabled)
BufferDelivered(t) ==
    \E n \in 0..MaxEvents :
        /\ m_enable_tracing
        /\ numEvents + 1 + n <= MaxEvents
        /\ rt_activity_callback(t, n)
        /\ numEvents' = numEvents + 1 + n
        /\ obs' = [NoObs EXCEPT !.ctx0 = blackboard[t]]
        /\ dispatched' = <<>>
        /\ tally' = [tally EXCEPT !.buffers = @ + 1]
        /\ UNCHANGED << callstack, absMap, last, history >>

\* the loop of flush_activity_records reads the record at its position
FlushRecord(t) ==
    \E rec \in Records :
        /\ flush_record(t, rec)
        /\ obs' = [obs EXCEPT !.nseen = @ + 1,
                              !.nops = @ + (IF IsActivity(rec) THEN 1 ELSE 0),
                              !.positions = Append(@, fl.record),
                              !.afterFail = @ + (IF obs.failed THEN 1 ELSE 0),
                              !.found0 = m_num_correlations_found,
                              !.missed0 = m_num_correlations_missed,
                              !.inflight = Len(callstack["app"]),
                              !.expect = Null, !.map0 = {}]
        /\ tally' = [tally EXCEPT !.seen = @ + 1]
        /\ UNCHANGED << callstack, numEvents, absMap, last, history, dispatched >>

\* pop_correlation takes the mutex: what the store holds for the id now
PopLock(t) ==
    /\ pop_lock(t)
    /\ obs' = [obs EXCEPT !.expect = absMap[loc[t].id], !.map0 = m_correlation_map,
                          !.lookups = @ + 1]
    /\ UNCHANGED << callstack, numEvents, absMap, last, tally, history, dispatched >>

\* pop_correlation's erase as the store's clients see it
PopErase(t) ==
    /\ pop_erase(t)
    /\ absMap' = [absMap EXCEPT ![loc[t].id] = Null]
    /\ tally' = [tally EXCEPT !.taken[loc[t].id] = @ + (IF loc[t].ret # Null THEN 1 ELSE 0),
                              !.nulls = @ + (IF loc[t].ret = Null THEN 1 ELSE 0)]
    /\ UNCHANGED << callstack, numEvents, last, obs, history, dispatched >>

\* flush_record hands its snapshot to the event bus
FlushRecordFinish(t) ==
    /\ flush_record_finish(t)
    /\ obs' = [obs EXCEPT !.ndispatched = @ + Len(dispatched') - Len(dispatched),
                          !.misses = @ + (IF loc[t].ret = Null THEN 1 ELSE 0)]
    /\ UNCHANGED << callstack, numEvents, absMap, last, tally, history >>

\* the loop advances; the bus has consumed the snapshots of this iteration
NextRecord(t) ==
    \E ok \in BOOLEAN :
        /\ next_record(t, ok)
        /\ obs' = [obs EXCEPT !.failed = ~ok]
        /\ dispatched' = <<>>
        /\ UNCHANGED << callstack, numEvents, absMap, last, tally, history >>

Next ==
    \/ ApiEnter("app")
    \/ ApiExit("app")
    \/ push_lock("app") /\ UNCHANGED env
    \/ PushWrite("app")
    \/ push_unlock("app") /\ UNCHANGED env
    \/ inc_stored_read("app") /\ UNCHANGED env
    \/ inc_stored_write("app") /\ UNCHANGED env
    \/ BufferDelivered("rt")
    \/ FlushRecord("rt")
    \/ PopLock("rt")
    \/ pop_find("rt") /\ UNCHANGED env
    \/ PopErase("rt")
    \/ pop_unlock("rt") /\ UNCHANGED env
    \/ FlushRecordFinish("rt")
    \/ NextRecord("rt")
    \/ flush_loop_exit("rt") /\ UNCHANGED env
    \/ flush_end("rt") /\ UNCHANGED env

Spec == Init /\ [][Next]_vars

(* ------------- several application threads, one callback thread -------- *)
NextThreads ==
    \/ \E t \in AppThreads : ApiEnter(t)
    \/ \E t \in AppThreads : ApiExit(t)
    \/ \E t \in AppThreads : push_lock(t) /\ UNCHANGED env
    \/ \E t \in AppThreads : PushWrite(t)
    \/ \E t \in AppThreads : push_unlock(t) /\ UNCHANGED env
    \/ \E t \in AppThreads : inc_stored_read(t) /\ UNCHANGED env
    \/ \E t \in AppThreads : inc_stored_write(t) /\ UNCHANGED env
    \/ BufferDelivered("rt")
    \/ FlushRecord("rt")
    \/ PopLock("rt")
    \/ pop_find("rt") /\ UNCHANGED env
    \/ PopErase("rt")
    \/ pop_unlock("rt") /\ UNCHANGED env
    \/ FlushRecordFinish("rt")
    \/ NextRecord("rt")
    \/ flush_loop_exit("rt") /\ UNCHANGED env
    \/ flush_end("rt") /\ UNCHANGED env

SpecThreads == Init /\ [][NextThreads]_vars

\* Spec with the scheduling the code can count on: a thread inside a critical
\* section runs on to its end (straight-line code, nothing blocks there), and a
\* thread waiting in lock() gets the mutex if it is free again and again.
\* Nothing is assumed of the steps that dispatch a snapshot or of the callers.
\* Tracing is enabled (push_correlation is not called otherwise) and kernel
\* names are not recorded (they only change which node is stored).
InitFair == Init /\ m_enable_tracing /\ ~ m_record_names

SpecFair ==
    /\ InitFair
    /\ [][Next]_vars
    /\ SF_vars(push_lock("app") /\ UNCHANGED env)
    /\ WF_vars(PushWrite("app"))
    /\ WF_vars(push_unlock("app") /\ UNCHANGED env)
    /\ WF_vars(pop_find("rt") /\ UNCHANGED env)
    /\ WF_vars(PopErase("rt"))
    /\ WF_vars(pop_unlock("rt") /\ UNCHANGED env)

(* ------------------- one channel from registration to finish ----------- *)
\* nothing is registered yet
InitUnregistered ==
    /\ m_enable_tracing = FALSE
    /\ m_record_names = FALSE
    /\ InitMembers
    /\ s_instance = 0
    /\ heap = [ made |-> 0, live |-> {} ]
    /\ m_roctracer_pool = 0
    /\ roctracer = NoRoctracer
    /\ pre_flush_evt = {}
    /\ log = <<>>
    /\ channel_evt = [ ch \in Channels |-> "none" ]
    /\ fault = FALSE
    /\ InitEnv

InitLife == InitUnregistered /\ InitUmpireIdle

\* Caliper creates the channel: the service is registered with the channel's
\* configuration (record_kernel_names is left at its default, false: it only
\* changes which node an ENTER callback stores)
Register(channel) ==
    \E trace_activities \in BOOLEAN :
        /\ register_roctracer(channel, trace_activities, FALSE)
        /\ UNCHANGED env

PostInit(channel) ==
    \E ok \in InitResults : post_init_evt(channel, ok) /\ UNCHANGED env

\* the channel is torn down while no thread is inside a callback
PreFinish(channel) ==
    /\ \A t \in Threads : pc[t] = "idle"
    /\ pre_finish_evt(channel)
    /\ UNCHANGED env

Finish(channel) ==
    /\ \A t \in Threads : pc[t] = "idle"
    /\ finish_evt(channel)
    /\ UNCHANGED env

\* the HIP runtime calls the callback roctracer holds for the HIP API domain
HipCallbackEnabled == ~ fault /\ roctracer.callback # 0

\* roctracer has records of an enabled domain in an open pool
ActivityEnabled ==
    /\ ~ fault
    /\ \E a \in roctracer.activity : a[2] \in roctracer.pools

NextLife ==
    \/ Register("A")
    \/ PostInit("A")
    \/ PreFinish("A")
    \/ Finish("A")
    \/ HipCallbackEnabled /\ numEvents < MaxLifeEvents /\ ApiEnter("app")
    \/ HipCallbackEnabled /\ ApiExit("app")
    \/ push_lock("app") /\ UNCHANGED env
    \/ PushWrite("app")
    \/ push_unlock("app") /\ UNCHANGED env
    \/ inc_stored_read("app") /\ UNCHANGED env
    \/ inc_stored_write("app") /\ UNCHANGED env
    \/ ActivityEnabled /\ numEvents < MaxLifeEvents /\ BufferDelivered("rt")
    \/ FlushRecord("rt")
    \/ PopLock("rt")
    \/ pop_find("rt") /\ UNCHANGED env
    \/ PopErase("rt")
    \/ pop_unlock("rt") /\ UNCHANGED env
    \/ FlushRecordFinish("rt")
    \/ NextRecord("rt")
    \/ flush_loop_exit("rt") /\ UNCHANGED env
    \/ flush_end("rt") /\ UNCHANGED env

SpecLife == InitLife /\ [][NextLife]_vars

(* ------------------- one channel with flush points --------------------- *)
\* the channel fires pre_flush_evt at a flush point, during its life or at
\* teardown before finish: the lambda init_tracing connected runs
PreFlush(channel) ==
    /\ ~ fault
    /\ channel_evt[channel] \in { "post_init", "pre_finish" }
    /\ pre_flush_evt # {}
    /\ pre_flush_cb
    /\ UNCHANGED env

NextFlushPoints ==
    \/ NextLife
    \/ PreFlush("A")

SpecFlushPoints == InitLife /\ [][NextFlushPoints]_vars

(* ------------------- two channels, no HIP activity --------------------- *)
NextChannels ==
    \/ \E ch \in Channels : Register(ch)
    \/ \E ch \in Channels : PostInit(ch)
    \/ \E ch \in Channels : PreFinish(ch)
    \/ \E ch \in Channels : Finish(ch)

SpecChannels == InitLife /\ [][NextChannels]_vars

(* ------------------- the Umpire service on one channel ----------------- *)
\* the trigger info and the blackboard content of a snapshot, by size
InfoSizes == { 0, 2 }
ContextSizes == { 0, 57, 60 }
InfoEntries(n) == [i \in 1 .. n |-> << "info", i >>]
ContextEntries(n) == [i \in 1 .. n |-> << "context", i >>]

\* the snapshot's builder when the Umpire service gets it: the entry another
\* service appended before, and the slots left
FreeSlots == { 0, 1, 2 }
TriggeringRecord(free) ==
    [ NewRecord(1 + free) EXCEPT !.fields = << << "prior", 1 >> >> ]

\* the application creates an allocator
MakeAllocator(name) ==
    /\ um_pc = "idle"
    /\ \A i \in 1 .. Len(rm) : rm[i].name # name
    /\ rm' = Append(rm, [ name |-> name, actual_size |-> 0, current_size |-> 0,
                          hwm |-> 0, count |-> 0 ])
    /\ UNCHANGED << m_per_allocator_stats, snapshot_rec, um, um_pc, processed, events,
                    rocprog, env >>

\* the application allocates 8 bytes from an allocator (a pool that keeps 64
\* bytes more than its high watermark)
Allocate(i) ==
    /\ um_pc = "idle"
    /\ i \in 1 .. Len(rm)
    /\ rm[i].count < MaxAllocations
    /\ LET current == rm[i].current_size + 8
           hwm     == IF current > rm[i].hwm THEN current ELSE rm[i].hwm
       IN  rm' = [rm EXCEPT ![i] = [ name |-> rm[i].name, actual_size |-> hwm + 64,
                                     current_size |-> current, hwm |-> hwm,
                                     count |-> rm[i].count + 1 ]]
    /\ UNCHANGED << m_per_allocator_stats, snapshot_rec, um, um_pc, processed, events,
                    rocprog, env >>

Deallocate(i) ==
    /\ um_pc = "idle"
    /\ i \in 1 .. Len(rm)
    /\ rm[i].count > 0
    /\ rm' = [rm EXCEPT ![i].current_size = @ - 8, ![i].count = @ - 1]
    /\ UNCHANGED << m_per_allocator_stats, snapshot_rec, um, um_pc, processed, events,
                    rocprog, env >>

\* the channel fires the snapshot event: the lambda umpire_register connected
\* calls UmpireService::snapshot
SnapshotEvent ==
    \E info \in InfoSizes, context \in ContextSizes, free \in FreeSlots :
        /\ events.snapshot < MaxSnapshots
        /\ snapshot_begin(InfoEntries(info), ContextEntries(context),
                          TriggeringRecord(free))
        /\ processed' = <<>>
        /\ events' = [events EXCEPT !.snapshot = @ + 1]
        /\ UNCHANGED env

\* the channel is done with the snapshot and with the records of its handlers
SnapshotReturn ==
    /\ um_pc = "ret"
    /\ um_pc' = "idle"
    /\ snapshot_rec' = NewRecord(0)
    /\ processed' = <<>>
    /\ UNCHANGED << m_per_allocator_stats, rm, um, events, rocprog, env >>

NextUmpire ==
    \/ \E name \in AllocatorNames : MakeAllocator(name)
    \/ \E i \in 1 .. 2 : Allocate(i)
    \/ \E i \in 1 .. 2 : Deallocate(i)
    \/ SnapshotEvent
    \/ snapshot_allocator /\ UNCHANGED env
    \/ snapshot_end /\ UNCHANGED env
    \/ SnapshotReturn

InitUmpireChannel == InitUnregistered /\ InitUmpire

SpecUmpire == InitUmpireChannel /\ [][NextUmpire]_vars

(* --------------------- the correlation store alone --------------------- *)
\* the node an application thread pushes: the rocm.api node of its own context
StoreNode(t) ==
    << << m_api_attr, IF t = "app" THEN "hipMemcpy" ELSE "hipLaunchKernel" >> >>

\* an application thread calls push_correlation(id, node)
StorePush(t) ==
    \E id \in Ids :
        /\ pc[t] = "idle"
        /\ numEvents < MaxOps
        /\ numEvents' = numEvents + 1
        /\ loc' = [loc EXCEPT ![t].id = id, ![t].node = StoreNode(t)]
        /\ pc' = [pc EXCEPT ![t] = "push_lock"]
        /\ UNCHANGED << config, m_correlation_map, m_correlation_map_mutex, counters,
                        blackboard, fl, flush_log >>
        /\ UNCHANGED << callstack, absMap, last, obs, tally, history, dispatched >>

\* a callback thread calls pop_correlation(id)
StorePop(t) ==
    \E id \in Ids :
        /\ pc[t] = "idle"
        /\ numEvents < MaxOps
        /\ numEvents' = numEvents + 1
        /\ loc' = [loc EXCEPT ![t].id = id]
        /\ pc' = [pc EXCEPT ![t] = "pop_lock"]
        /\ UNCHANGED << config, m_correlation_map, m_correlation_map_mutex, counters,
                        blackboard, fl, flush_log >>
        /\ UNCHANGED << callstack, absMap, last, obs, tally, history, dispatched >>

\* push_correlation leaves its critical section
StorePushUnlock(t) ==
    /\ push_unlock(t)
    /\ history' = [history EXCEPT
                     ![loc[t].id] = Append(@, [op |-> "push", node |-> loc[t].node])]
    /\ UNCHANGED << callstack, numEvents, absMap, last, obs, tally, dispatched >>

\* pop_correlation leaves its critical section
StorePopUnlock(t) ==
    /\ pop_unlock(t)
    /\ history' = [history EXCEPT
                     ![loc[t].id] = Append(@, [op |-> "pop", node |-> loc[t].ret])]
    /\ UNCHANGED << callstack, numEvents, absMap, last, obs, tally, dispatched >>

\* the call returns to the client, its locals go out of scope
StoreReturn(t) ==
    /\ pc[t] \in { "push_ret", "pop_ret" }
    /\ pc' = [pc EXCEPT ![t] = "idle"]
    /\ loc' = [loc EXCEPT ![t] = NoLocals]
    /\ UNCHANGED << config, m_correlation_map, m_correlation_map_mutex, counters,
                    blackboard, fl, flush_log >>
    /\ UNCHANGED env

StoreThreads == { "app", "app2", "rt", "rt2" }

NextStore ==
    \/ \E t \in { "app", "app2" } : StorePush(t)
    \/ \E t \in { "rt", "rt2" } : StorePop(t)
    \/ \E t \in StoreThreads : push_lock(t) /\ UNCHANGED env
    \/ \E t \in StoreThreads : PushWrite(t)
    \/ \E t \in StoreThreads : StorePushUnlock(t)
    \/ \E t \in StoreThreads : pop_lock(t) /\ UNCHANGED env
    \/ \E t \in StoreThreads : pop_find(t) /\ UNCHANGED env
    \/ \E t \in StoreThreads : PopErase(t)
    \/ \E t \in StoreThreads : StorePopUnlock(t)
    \/ \E t \in StoreThreads : StoreReturn(t)

InitStore == Init /\ m_enable_tracing /\ ~ m_record_names

SpecStore == InitStore /\ [][NextStore]_vars

(* ============================== claims ================================= *)
HasEntry(map, id) == \E e \in map : e[1] = id

\* C1: in the correlation store, a pop_correlation(id) that directly follows a
\* push_correlation(id, n) (no pop of id in between) returns n, a pop that
\* directly follows another pop of the same id returns null, and when a pop
\* has done its erase the map holds no entry for the id.
C1_PushThenPop ==
    /\ \A id \in Ids : \A i \in 2..Len(history[id]) :
          LET prev == history[id][i - 1]
              this == history[id][i]
          IN  /\ (prev.op = "push" /\ this.op = "pop") => this.node = prev.node
              /\ (prev.op = "pop" /\ this.op = "pop") => this.node = Null
    /\ \A t \in StoreThreads :
          pc[t] = "pop_unlock" => ~ HasEntry(m_correlation_map, loc[t].id)

\* a push of n, a pop that returned n and a second pop that returned null
C1_Witness ==
    \E id \in Ids :
        /\ Len(history[id]) = 3
        /\ history[id][1].op = "push"
        /\ history[id][2] = [op |-> "pop", node |-> history[id][1].node]
        /\ history[id][3] = [op |-> "pop", node |-> Null]

\* C2: under every interleaving of pushes and pops the store is linearizable:
\* the node a pop has read is the node of the latest completed push of that id
\* that no pop has taken (null if there is none), and the pops of an id that
\* returned a node are never more than the pushes of that id.
C2_Linearizable ==
    /\ \A t \in StoreThreads :
          pc[t] = "pop_erase" => loc[t].ret = absMap[loc[t].id]
    /\ \A id \in Ids : tally.taken[id] <= tally.pushed[id]

\* two pops of one id in flight at once after a single push of it: one got
\* the node, the other null
C2_Witness ==
    /\ pc["rt"] = "pop_ret" /\ pc["rt2"] = "pop_ret"
    /\ loc["rt"].id = loc["rt2"].id
    /\ tally.pushed[loc["rt"].id] = 1
    /\ loc["rt"].ret # Null
    /\ loc["rt2"].ret = Null

\* C6: the map never holds two entries of one id, and a push over an existing
\* entry overwrites it: after push(id, n1), push(id, n2) the next pop of id
\* returns n2 and the pop after that returns null.
C6_OneEntryOverwrite ==
    /\ \A id \in Ids : Cardinality({ e \in m_correlation_map : e[1] = id }) <= 1
    /\ \A id \in Ids : \A i \in 3..Len(history[id]) :
          LET h == history[id]
          IN  (h[i - 2].op = "push" /\ h[i - 1].op = "push" /\ h[i].op = "pop")
                 => /\ h[i].node = h[i - 1].node
                    /\ (i < Len(h) /\ h[i + 1].op = "pop") => h[i + 1].node = Null

\* push n1, push n2 with n2 # n1, pop returned n2, pop returned null
C6_Witness ==
    \E id \in Ids :
        /\ Len(history[id]) = 4
        /\ history[id][1].op = "push" /\ history[id][2].op = "push"
        /\ history[id][1].node # history[id][2].node
        /\ history[id][3] = [op |-> "pop", node |-> history[id][2].node]
        /\ history[id][4] = [op |-> "pop", node |-> Null]

\* the value the snapshot holds for an attribute
FieldOf(snapshot, attr) ==
    LET i == CHOOSE i \in DOMAIN snapshot.fields : snapshot.fields[i][1] = attr
    IN  snapshot.fields[i][2]

HasField(snapshot, attr) ==
    \E i \in DOMAIN snapshot.fields : snapshot.fields[i][1] = attr

\* the rocm.api node of the call the application thread entered last
LastApiNode(t) ==
    Append(last[t].ctx0, << m_api_attr, hip_api_name(last[t].cid) >>)

\* C3: with activity tracing enabled, the node an ENTER callback stores under
\* its correlation id is the node of the context it has just begun (the
\* rocm.api node, or its kernel-name child), the stored counter is one more
\* when the callback has returned, and an activity record whose id has such a
\* stored node gets exactly one snapshot, which carries end_ns - begin_ns as
\* its duration and that node as its parent, with the found counter one more
\* and the missed counter unchanged.
C3_StoredThenFound ==
    /\ pc["app"] \in { "push_lock", "push_write", "push_unlock", "push_ret", "stored_write" }
          => /\ m_enable_tracing
             /\ loc["app"].node = last["app"].node
             /\ \/ loc["app"].node = LastApiNode("app")
                \/ \E k \in KernelNames \ { "" } :
                      /\ m_record_names
                      /\ loc["app"].node =
                            Append(LastApiNode("app"), << m_kernel_name_attr, demangle(k) >>)
    /\ (pc["app"] = "idle" /\ last["app"].phase = ACTIVITY_API_PHASE_ENTER
           /\ last["app"].node # Null)
          => m_num_correlations_stored = last["app"].stored0 + 1
    /\ (pc["rt"] = "next_record" /\ IsActivity(fl.rec) /\ obs.expect # Null)
          => /\ Len(dispatched) = 1
             /\ dispatched[1].parent = obs.expect
             /\ HasField(dispatched[1], m_activity_duration_attr)
             /\ FieldOf(dispatched[1], m_activity_duration_attr)
                   = fl.rec.end_ns - fl.rec.begin_ns
             /\ m_num_correlations_found = obs.found0 + 1
             /\ m_num_correlations_missed = obs.missed0

\* a kernel launch was entered and left, and then its activity record came:
\* one snapshot of duration 500 under the kernel-name node, stored = found = 1
C3_Witness ==
    /\ pc["rt"] = "next_record" /\ IsActivity(fl.rec)
    /\ pc["app"] = "idle" /\ last["app"].phase = ACTIVITY_API_PHASE_EXIT
    /\ callstack["app"] = <<>> /\ obs.inflight = 0
    /\ Len(dispatched) = 1
    /\ dispatched[1].parent =
          << << m_api_attr, "hipLaunchKernel" >>, << m_kernel_name_attr, "matmul()" >> >>
    /\ FieldOf(dispatched[1], m_activity_duration_attr) = 500
    /\ m_num_correlations_stored = 1
    /\ m_num_correlations_found = 1
    /\ m_num_correlations_missed = 0

\* C4: when the map has no entry of the id at the moment pop_correlation takes
\* the mutex, pop_correlation returns null and leaves the map as it was, and
\* the flush_record that made the lookup adds one to the missed counter and
\* nothing to the found counter.
C4_AbsentIdMisses ==
    /\ (pc["rt"] \in { "pop_erase", "pop_unlock", "pop_ret" }
           /\ ~ HasEntry(obs.map0, loc["rt"].id))
          => loc["rt"].ret = Null
    /\ (pc["rt"] \in { "pop_find", "pop_erase", "pop_unlock" }
           /\ ~ HasEntry(obs.map0, loc["rt"].id))
          => m_correlation_map = obs.map0
    /\ (pc["rt"] = "next_record" /\ IsActivity(fl.rec)
           /\ ~ HasEntry(obs.map0, fl.rec.correlation_id))
          => /\ m_num_correlations_missed = obs.missed0 + 1
             /\ m_num_correlations_found = obs.found0

\* a lookup of an id without entry while the map holds another id's entry
C4_Witness ==
    /\ pc["rt"] = "next_record" /\ IsActivity(fl.rec)
    /\ obs.map0 # {}
    /\ ~ HasEntry(obs.map0, fl.rec.correlation_id)
    /\ m_correlation_map = obs.map0
    /\ m_num_correlations_missed = 1
    /\ m_num_correlations_found = 0

\* C5: an activity record whose id has no entry in the map still gets exactly one
\* snapshot, built with a null parent, and the flush goes on: unless
\* roctracer_next_record fails, the loop ends only when it has read every
\* record of the buffer, with one snapshot per activity record.
C5_MissStillDispatches ==
    /\ (pc["rt"] = "next_record" /\ IsActivity(fl.rec)
           /\ ~ HasEntry(obs.map0, fl.rec.correlation_id))
          => /\ Len(dispatched) = 1
             /\ dispatched[1].parent = Null
             /\ dispatched[1].fields = ActivitySnapshot(fl.rec, Null).fields
    /\ (pc["rt"] = "flush_finish" /\ ~ obs.failed)
          => /\ obs.nseen = fl.n
             /\ obs.ndispatched = obs.nops

\* the second record of a buffer is being finished after the first one missed
C5_Witness ==
    /\ pc["rt"] = "next_record" /\ IsActivity(fl.rec)
    /\ fl.record = 1
    /\ obs.nops = 2 /\ obs.misses = 2 /\ obs.ndispatched = 2
    /\ Len(dispatched) = 1 /\ dispatched[1].parent = Null

\* C7: in every flush, a record of the HIP_OPS or HCC_OPS domain gets exactly
\* one snapshot, made of that record's fields, before the loop advances, and a
\* record of another domain gets none and no lookup; the loop reads the
\* positions of the buffer in order, each once; every record read is counted in
\* the records-seen counters; and unless roctracer_next_record fails the loop
\* goes on to the end of the buffer.
C7_SnapshotsFollowRecords ==
    /\ pc["rt"] = "next_record"
          => IF IsActivity(fl.rec)
             THEN /\ Len(dispatched) = 1
                  /\ dispatched[1].fields = ActivitySnapshot(fl.rec, Null).fields
                  /\ FieldOf(dispatched[1], m_activity_start_attr) = fl.rec.begin_ns
                  /\ FieldOf(dispatched[1], m_activity_end_attr) = fl.rec.end_ns
             ELSE dispatched = <<>>
    /\ pc["rt"] \in { "next_record", "loop", "flush_finish", "idle" }
          => /\ obs.ndispatched = obs.nops
             /\ obs.lookups = obs.nops
    /\ \A i \in 1..Len(obs.positions) : obs.positions[i] = i - 1
    /\ Len(obs.positions) = obs.nseen
    /\ pc["rt"] \in { "loop", "flush_finish" } => fl.num_records = obs.nseen
    /\ pc["rt"] = "idle" => m_num_records = tally.seen
    /\ (pc["rt"] = "flush_finish" /\ ~ obs.failed) => obs.nseen = fl.n

\* the second record of a buffer got its snapshot after the first one, of
\* another domain, got none
C7_Witness ==
    /\ pc["rt"] = "next_record" /\ IsActivity(fl.rec)
    /\ fl.record = 1
    /\ obs.nseen = 2 /\ obs.nops = 1 /\ obs.lookups = 1
    /\ Len(dispatched) = 1

\* C8 as the spec states it: after roctracer_next_record failed, no further
\* record is read, what was dispatched and counted stands, and the records of
\* the buffer that were not read are part of the flush's skipped count.
C8_RemainderReportedSkipped ==
    /\ obs.afterFail = 0
    /\ (pc["rt"] = "idle" /\ obs.failed)
          => /\ flush_log.flushed = obs.ndispatched
             /\ flush_log.skipped = (obs.nseen - obs.nops) + (fl.n - obs.nseen)

\* C8 (amended): after roctracer_next_record failed, no further record of the
\* buffer is read; the snapshots already dispatched and the counts of the
\* records read stand; the rest of the buffer is abandoned without being
\* counted: the flush's skipped count is the number of records read that were
\* not of the HIP_OPS or HCC_OPS domain.
C8_EarlyTermination ==
    /\ obs.afterFail = 0
    /\ (pc["rt"] = "flush_finish" /\ obs.failed)
          => /\ obs.ndispatched = obs.nops
             /\ fl.num_flushed = obs.nops
             /\ fl.num_records = obs.nseen
             /\ obs.nseen = fl.record + 1
    /\ (pc["rt"] = "idle" /\ obs.failed)
          => /\ flush_log.records = obs.nseen
             /\ flush_log.flushed = obs.ndispatched
             /\ flush_log.skipped = obs.nseen - obs.nops
             /\ m_num_records = tally.seen

\* a flush of two records that ended at the first: one snapshot, none skipped
C8_Witness ==
    /\ pc["rt"] = "idle" /\ obs.failed
    /\ fl.n = 2 /\ obs.nseen = 1
    /\ obs.ndispatched = 1
    /\ flush_log = [ records |-> 1, flushed |-> 1, skipped |-> 0 ]
    /\ m_num_flushes = 1

\* C9: every step of a flush_activity_records call on an empty buffer (begin =
\* end) leaves the dispatched snapshots, the correlation map and the records,
\* flushed, stored, found and missed counters as they are and makes no lookup:
\* the call goes from the loop condition straight to the end of the function,
\* where it adds exactly one to the flush counter.
C9_EmptyBuffer ==
    [][ (pc'["rt"] # pc["rt"] /\ fl'.n = 0)
           => /\ << pc["rt"], pc'["rt"] >> \in
                    { << "idle", "loop" >>, << "loop", "flush_finish" >>,
                      << "flush_finish", "idle" >> }
              /\ dispatched' = <<>>
              /\ obs'.lookups = 0
              /\ UNCHANGED << m_correlation_map, m_num_records, m_num_flushed,
                              m_num_correlations_stored, m_num_correlations_found,
                              m_num_correlations_missed >>
              /\ m_num_flushes' =
                    m_num_flushes + (IF pc["rt"] = "flush_finish" THEN 1 ELSE 0) ]_vars

\* an empty buffer has been flushed while the map held an entry
C9_Witness ==
    /\ pc["rt"] = "idle"
    /\ fl.n = 0
    /\ m_num_flushes = 1
    /\ m_num_records = 0 /\ m_num_flushed = 0
    /\ m_correlation_map # {}
    /\ m_num_correlations_stored = 1

\* C10: when an EXIT callback has returned, the thread's context is what it
\* was before the matching ENTER callback; a callback of one of the two
\* call-configuration ids leaves the context as it was; and when
\* flush_activity_records has returned, also after an early end of its loop,
\* the thread's context is what it was when the buffer arrived.
C10_BeginEndBalance ==
    /\ (pc["app"] = "idle" /\ last["app"].phase = ACTIVITY_API_PHASE_EXIT)
          => blackboard["app"] = last["app"].ctx0
    /\ (pc["app"] = "idle" /\ last["app"].phase = ACTIVITY_API_PHASE_ENTER
           /\ last["app"].cid \in { HIP_API_ID___hipPushCallConfiguration,
                                    HIP_API_ID___hipPopCallConfiguration })
          => blackboard["app"] = last["app"].ctx0
    /\ pc["rt"] = "idle" => blackboard["rt"] = obs.ctx0
    /\ pc["rt"] # "idle"
          => blackboard["rt"] = Append(obs.ctx0, << m_flush_region_attr, "ROCTRACER FLUSH" >>)

\* an API call was entered and left and a flush ended early; both threads are
\* back in their contexts
C10_Witness ==
    /\ pc["app"] = "idle" /\ last["app"].phase = ACTIVITY_API_PHASE_EXIT
    /\ last["app"].cid = HIP_API_ID_hipMemcpy
    /\ pc["rt"] = "idle" /\ obs.failed /\ m_num_flushes = 1
    /\ blackboard["app"] = <<>> /\ blackboard["rt"] = <<>>

RECURSIVE SumOver(_, _)
SumOver(f, S) ==
    IF S = {} THEN 0
    ELSE LET x == CHOOSE x \in S : TRUE IN f[x] + SumOver(f, S \ { x })

\* C11: whenever no callback is running, the stored counter is the number of
\* push_correlation calls made, the found counter the number of lookups that
\* returned a node and the missed counter the number that returned null.
C11_NoLostUpdate ==
    (\A t \in Threads : pc[t] = "idle")
        => /\ m_num_correlations_stored = SumOver(tally.pushed, Ids)
           /\ m_num_correlations_found = SumOver(tally.taken, Ids)
           /\ m_num_correlations_missed = tally.nulls

\* C12 as the spec states it: a push_correlation for an id that still has an
\* entry is reported. The service has no counter of such pushes (its counters
\* are records, flushed, flushes, stored, found and missed), so a report is a
\* statement in the log: once the callback that made such a push has returned,
\* the log holds more than it held when the callbacks were installed.
C12_DuplicateReported ==
    (pc["app"] = "idle" /\ tally.dups > 0)
        => Len(log) > Len(RunningLog("A", m_enable_tracing))

\* C12 (amended): a push_correlation for an id that still has an entry is not
\* an error and is not reported: the write replaces the old node by the new
\* one, leaves the other entries, the counters and the log as they are, and
\* push_correlation goes on to its end.
C12_DuplicateOverwrites ==
    [][ (pc["app"] = "push_write" /\ pc'["app"] # "push_write"
            /\ HasEntry(m_correlation_map, loc["app"].id))
           => /\ m_correlation_map' =
                    { e \in m_correlation_map : e[1] # loc["app"].id }
                       \cup { << loc["app"].id, loc["app"].node >> }
              /\ pc'["app"] = "push_unlock"
              /\ UNCHANGED << log, flush_log, counters, fault >> ]_vars

\* two ENTER callbacks of one id have returned and no record of the id came
\* in between: one entry, stored = 2, nothing logged
C12_Witness ==
    /\ pc["app"] = "idle"
    /\ tally.dups = 1
    /\ Cardinality(m_correlation_map) = 1
    /\ m_num_correlations_stored = 2
    /\ \E e \in m_correlation_map : e[2] = last["app"].node
    /\ log = RunningLog("A", m_enable_tracing)

\* the channel's teardown steps: pre_finish_evt and finish_evt
TeardownStep(channel) ==
    /\ channel_evt[channel] \in { "post_init", "pre_finish" }
    /\ channel_evt'[channel] # channel_evt[channel]

\* the correlation counters finish_cb wrote to the log
Published == log[Len(log)].values

TracingSetupFailed ==
    \E i \in 1 .. Len(log) :
        /\ log[i].level = 0
        /\ log[i].text \in { "roctracer_open_pool_expl()", "roctracer_default_pool_expl()",
                             "roctracer_enable_activity_expl() HIP_OPS",
                             "roctracer_enable_activity_expl() HCC_OPS" }

\* C14: once init_tracing has logged a failed setup call, activity tracing is
\* disabled for the rest of the channel: the flag is off, later HIP API
\* callbacks store no correlation entry, no flush is requested, and teardown
\* completes without touching a pool.
C14_SetupFailureDisablesTracing ==
    TracingSetupFailed =>
        /\ ~ m_enable_tracing
        /\ m_correlation_map = {}
        /\ m_num_correlations_stored = 0
        /\ pre_flush_evt = {}

\* the steps between the construction and the destruction of a lock_guard
InCriticalSection(t) ==
    pc[t] \in { "push_write", "push_unlock", "pop_find", "pop_erase", "pop_unlock" }

\* C15: the mutex is held only inside push_correlation and pop_correlation
\* (one insert, or one lookup and erase); no step that dispatches a snapshot or
\* begins or ends a region on the blackboard is taken by a thread holding it;
\* and an application thread waiting in push_correlation always gets the mutex,
\* whatever time the dispatch of a snapshot takes.
C15_MutexNeverHeldOutside ==
    /\ [](\A t \in Threads : m_correlation_map_mutex = t => InCriticalSection(t))
    /\ [][ (dispatched' # dispatched \/ blackboard' # blackboard)
              => \A t \in Threads :
                    pc'[t] # pc[t] => (m_correlation_map_mutex # t /\ m_correlation_map_mutex' # t) ]_vars
    /\ (pc["app"] = "push_lock" ~> pc["app"] = "push_write")

\* the application thread got the mutex while the callback thread had left
\* pop_correlation and was about to dispatch its snapshot
C15_Witness ==
    /\ pc["rt"] = "pop_ret"
    /\ pc["app"] = "push_write"
    /\ m_correlation_map_mutex = "app"

\* C16: a registration while an instance is active is disabled: the active
\* instance is not replaced (there is never a second live instance, and
\* s_instance is null or live), and no channel event dereferences a null or
\* deleted s_instance, for any order of the two channels' events.
C16_ReRegistrationGuarded ==
    /\ ~ fault
    /\ Cardinality(heap.live) <= 1
    /\ s_instance # 0 => s_instance \in heap.live

\* how many times finish_cb wrote the correlation counters to the log
TimesPublished ==
    Cardinality({ i \in 1 .. Len(log) : log[i].text = "correlations stored; found, missed" })

InPush(t) ==
    pc[t] \in { "push_lock", "push_write", "push_unlock", "push_ret", "stored_write" }

\* C18: push_correlation runs only for an ENTER callback of a call that is not
\* skipped, with activity tracing enabled and a node for the call; an EXIT
\* callback, a skipped callback and any callback while tracing is disabled
\* return at once with the correlation map and the stored counter unchanged;
\* and the map gains an entry, and the stored counter changes, only in steps of
\* push_correlation and of the increment that follows it.
C18_PushOnlyOnEnter ==
    /\ [](InPush("app") =>
             /\ last["app"].phase = ACTIVITY_API_PHASE_ENTER
             /\ ~ IsSkipped(last["app"].cid)
             /\ m_enable_tracing
             /\ loc["app"].node # Null
             /\ loc["app"].node = last["app"].node
             /\ loc["app"].id = last["app"].id)
    /\ [][ (callstack'["app"] # callstack["app"]
              /\ \/ last'["app"].phase = ACTIVITY_API_PHASE_EXIT
                 \/ IsSkipped(last'["app"].cid)
                 \/ ~ m_enable_tracing)
           => /\ pc'["app"] = "idle"
              /\ UNCHANGED << m_correlation_map, m_num_correlations_stored >> ]_vars
    /\ [][ (m_correlation_map' \ m_correlation_map # {}
              \/ m_num_correlations_stored' # m_num_correlations_stored)
           => pc["app"] \in { "push_write", "stored_write" } ]_vars

\* an EXIT callback has returned and left the entry of its call in the map
C18_Witness ==
    /\ pc["app"] = "idle"
    /\ last["app"].phase = ACTIVITY_API_PHASE_EXIT
    /\ callstack["app"] = <<>>
    /\ m_enable_tracing
    /\ Cardinality(m_correlation_map) = 1
    /\ m_num_correlations_stored = 1

\* C19: the snapshot dispatched for an activity record holds, in this order,
\* the activity name, the start time, the end time, the duration
\* end_ns - begin_ns, the device id and the queue id, followed by the byte
\* count exactly if the operation is a copy: 6 or 7 fields, within the
\* capacity of the record.
C19_FieldsInAppendOrder ==
    (pc["rt"] = "next_record" /\ IsActivity(fl.rec)) =>
        LET fields == dispatched[Len(dispatched)].fields
            six == << << m_activity_name_attr, roctracer_op_string(fl.rec.domain, fl.rec.op) >>,
                      << m_activity_start_attr, fl.rec.begin_ns >>,
                      << m_activity_end_attr, fl.rec.end_ns >>,
                      << m_activity_duration_attr, fl.rec.end_ns - fl.rec.begin_ns >>,
                      << m_activity_device_id_attr, fl.rec.device_id >>,
                      << m_activity_queue_id_attr, fl.rec.queue_id >> >>
        IN  /\ dispatched # <<>>
            /\ fl.rec.op = HIP_OP_ID_COPY
                  => fields = Append(six, << m_activity_bytes_attr, fl.rec.bytes >>)
            /\ fl.rec.op # HIP_OP_ID_COPY => fields = six
            /\ Len(fields) \in { 6, 7 }
            /\ Len(fields) = 7 <=> fl.rec.op = HIP_OP_ID_COPY
            /\ Len(fields) <= SnapshotCapacity

C19_Witness ==
    /\ pc["rt"] = "next_record"
    /\ IsActivity(fl.rec)
    /\ fl.rec.op = HIP_OP_ID_COPY
    /\ dispatched # <<>>
    /\ Len(dispatched[Len(dispatched)].fields) = 7
    /\ dispatched[Len(dispatched)].fields[7] = << m_activity_bytes_attr, 64 >>

\* the six counters, in the order of their declarations
CounterValues ==
    << m_num_records, m_num_flushed, m_num_flushes,
       m_num_correlations_stored, m_num_correlations_found, m_num_correlations_missed >>

\* what C20 says of the flush counters: between flushes found + missed is the
\* number of records flushed, which is at most the number of records seen, and
\* every buffer delivered has been counted once
C20_FlushCounters ==
    pc["rt"] = "idle" =>
        /\ m_num_correlations_found + m_num_correlations_missed = m_num_flushed
        /\ m_num_flushed <= m_num_records
        /\ m_num_flushes = tally.buffers

\* C20: with one callback thread the flush counters are consistent whenever no
\* flush is in progress, and no step makes any of the six counters smaller.
C20_CountersConsistent ==
    /\ []C20_FlushCounters
    /\ [][ \A i \in 1 .. 6 : CounterValues'[i] >= CounterValues[i] ]_vars

\* C21: every flush request is made for a pool that is open at that moment
\* (so never with the null reference pre_finish leaves behind), and the
\* pre_flush handler is connected only if init_tracing got through all of its
\* setup calls.
C21_FlushOnlyOpenPool ==
    /\ \A q \in roctracer.requests : q[1] # 0 /\ q[2]
    /\ pre_flush_evt # {} =>
          (~ TracingSetupFailed /\ \E i \in 1 .. Len(log) : log[i].text = "Tracing initialized")

\* the sums of getCurrentSize() and getAllocationCount() over the allocators
TotalSize == SumOver([i \in 1 .. Len(rm) |-> rm[i].current_size], 1 .. Len(rm))
TotalCount == SumOver([i \in 1 .. Len(rm) |-> rm[i].count], 1 .. Len(rm))

\* the two fields the Umpire service appends, and what it did append
UmpireTotals ==
    << << m_total_size_attr, TotalSize >>, << m_total_count_attr, TotalCount >> >>
UmpireAppended == SubSeq(snapshot_rec.fields, 2, Len(snapshot_rec.fields))

\* one record per allocator if per-allocator statistics are enabled, none if
\* not, in the order of the allocators, and no further snapshot event
PerAllocatorRecords ==
    /\ Len(processed) = IF m_per_allocator_stats THEN Len(rm) ELSE 0
    /\ \A i \in 1 .. Len(processed) :
          \E k \in 1 .. Len(processed[i].fields) :
             processed[i].fields[k] = << m_alloc_name_attr, rm[i].name >>
    /\ events.process_snapshot <= events.snapshot * Len(rm)

\* C22 as stated: when the handler has returned, the triggering snapshot has
\* got exactly the two totals, total size then total count.
C22_TwoTotalsAlways ==
    um_pc = "ret" => UmpireAppended = UmpireTotals

\* C22 (amended): the handler appends total size then total count as far as
\* the triggering snapshot has free slots (both if it has two), with the sums
\* over all allocators (0 and 0 without allocators) whether or not
\* per-allocator statistics are enabled; it dispatches one record per
\* allocator if they are enabled and none if not; and no step of the handler
\* fires the snapshot event.
C22_TotalsAndRecords ==
    /\ [](um_pc = "ret" =>
             /\ UmpireAppended =
                   SubSeq(UmpireTotals, 1,
                          IF snapshot_rec.capacity - 1 < 2 THEN snapshot_rec.capacity - 1 ELSE 2)
             /\ snapshot_rec.fields[1] = << "prior", 1 >>
             /\ PerAllocatorRecords)
    /\ [][ events'.snapshot # events.snapshot => (um_pc = "idle" /\ um_pc' = "loop") ]_vars

C22_Witness ==
    /\ um_pc = "ret"
    /\ m_per_allocator_stats
    /\ Len(rm) = 2
    /\ Len(processed) = 2
    /\ snapshot_rec.fields =
          << << "prior", 1 >>, << m_total_size_attr, 24 >>, << m_total_count_attr, 3 >> >>

\* C23: every per-allocator record holds the five allocator fields (name,
\* actual size, current size, high watermark, count) after the context it
\* inherits, and none was dropped for want of a slot.
C23_AllFiveFields ==
    \A i \in 1 .. Len(processed) :
        LET rec == processed[i]
            n   == Len(rec.fields)
        IN  /\ rec.skipped = 0
            /\ n >= 5
            /\ SubSeq(rec.fields, n - 4, n) =
                  << << m_alloc_name_attr, rm[i].name >>,
                     << m_alloc_actual_size_attr, rm[i].actual_size >>,
                     << m_alloc_current_size_attr, rm[i].current_size >>,
                     << m_alloc_hwm_attr, rm[i].hwm >>,
                     << m_alloc_count_attr, rm[i].count >> >>

====
